---- MODULE Spec2Model ----
(***************************************************************************)
(* Credential flow of server.mjs: POST /signup and POST /login against the *)
(* sqlite table users(id, username, email UNIQUE, password).               *)
(*                                                                         *)
(* A JavaScript string is a sequence of one-character strings.  A request  *)
(* body field is a JS value [type, chars]: type "string", or type "array"  *)
(* for the one-element array [chars] (a truthy non-string whose String()   *)
(* conversion is chars, and which has no toLowerCase method).              *)
(*                                                                         *)
(* Each handler is cut at its suspension points: the synchronous part up   *)
(* to db.get, the db.get callback, the await on bcrypt, the db.run         *)
(* callback.  Steps of different requests interleave freely.               *)
(***************************************************************************)
EXTENDS Integers, Sequences, FiniteSets, TLC

VARIABLES users, reqs

vars == <<users, reqs>>

\* ------------------------------------------------------------------ bounds

NumReqs == 2
NumSalts == 2
MaxPad == 6
MaxTail == 4

Reqs == 1..NumReqs
Salts == 1..NumSalts

\* ------------------------------------------------------- characters, strings

UpperChars == {"A", "B"}
LowerChars == {"a", "b", "c"}
DigitChars == {"1", "2"}
SpecialChars == {"@", "$", "!", "%", "*", "?", "&"}
SpaceChars == {" "}

LowerOf(c) == CASE c = "A" -> "a" [] c = "B" -> "b" [] OTHER -> c

Str(s) == [type |-> "string", chars |-> s]
Arr(s) == [type |-> "array", chars |-> s]

\* JS truthiness of a body field: "" is falsy, every array is truthy.
Truthy(v) == v.type = "array" \/ Len(v.chars) > 0

\* String.prototype.toLowerCase
toLowerCase(s) == [i \in 1..Len(s) |-> LowerOf(s[i])]

RECURSIVE trimStart(_)
trimStart(s) ==
  IF Len(s) > 0 /\ s[1] \in SpaceChars THEN trimStart(Tail(s)) ELSE s

RECURSIVE trimEnd(_)
trimEnd(s) ==
  IF Len(s) > 0 /\ s[Len(s)] \in SpaceChars
    THEN trimEnd(SubSeq(s, 1, Len(s) - 1))
    ELSE s

\* String.prototype.trim
trim(s) == trimEnd(trimStart(s))

\* email.toLowerCase().trim()
NormalizeEmail(s) == trim(toLowerCase(s))

\* [^\s@]+ over s[a..b]
NoSpaceAt(s, a, b) ==
  /\ a <= b
  /\ \A k \in a..b : s[k] \notin SpaceChars /\ s[k] # "@"

\* /^[^\s@]+@[^\s@]+\.[^\s@]+$/
emailRegex(s) ==
  \E i \in 1..Len(s) : \E j \in 1..Len(s) :
    /\ s[i] = "@"
    /\ s[j] = "."
    /\ NoSpaceAt(s, 1, i - 1)
    /\ NoSpaceAt(s, i + 1, j - 1)
    /\ NoSpaceAt(s, j + 1, Len(s))

MinPasswordLen == 8

PasswordBodyChars == UpperChars \cup LowerChars \cup DigitChars \cup SpecialChars

\* /^(?=.*[A-Z])(?=.*\d)(?=.*[@$!%*?&])[A-Za-z\d@$!%*?&]{8,}$/
passwordRegex(s) ==
  /\ \E k \in 1..Len(s) : s[k] \in UpperChars
  /\ \E k \in 1..Len(s) : s[k] \in DigitChars
  /\ \E k \in 1..Len(s) : s[k] \in SpecialChars
  /\ \A k \in 1..Len(s) : s[k] \in PasswordBodyChars
  /\ Len(s) >= MinPasswordLen

\* ------------------------------------------------------------------ bcrypt

BcryptRounds == 10

\* The salted one-way function inside bcrypt: injective in (salt, data).
Digest(salt, s) == <<salt, s>>

\* bcrypt.hash(data, 10) rejects unless data is a string.
HashRejects(v) == v.type # "string"

\* The value bcrypt.hash(data, 10) resolves to, for the salt it generated.
BcryptHash(v, salt) ==
  [rounds |-> BcryptRounds, salt |-> salt, digest |-> Digest(salt, v.chars)]

\* bcrypt.compare(data, hash) rejects unless data is a string.
CompareRejects(v) == v.type # "string"

\* The value bcrypt.compare(data, hash) resolves to.
BcryptCompare(v, h) == Digest(h.salt, v.chars) = h.digest

\* ------------------------------------------------------------------- store

\* The lookup as it would be with the filter on the wrong column.
SelectByUsername(tbl, e) == SelectSeq(tbl, LAMBDA row : row.username = e)

\* SELECT ... FROM users WHERE email = ? : the matching rows, in table order.
SelectByEmail(tbl, e) == SelectSeq(tbl, LAMBDA row : row.email = e)

\* id INTEGER PRIMARY KEY AUTOINCREMENT (rows are never deleted).
NextId(tbl) == Len(tbl) + 1

\* email TEXT UNIQUE: the insert violates the constraint.
UniqueViolation(tbl, e) == \E k \in 1..Len(tbl) : tbl[k].email = e

\* The insert as it would be without UNIQUE on the email column.
DbInsertNoUnique(tbl, username, e, h, failed) ==
  IF failed
    THEN tbl
    ELSE Append(tbl, [id |-> Len(tbl) + 1, username |-> username,
                      email |-> e, password |-> h])

\* The insert as INSERT OR REPLACE: a conflicting row is overwritten.
DbInsertOrReplace(tbl, username, e, h, failed) ==
  IF failed THEN tbl
  ELSE IF \E k \in 1..Len(tbl) : tbl[k].email = e
    THEN [k \in 1..Len(tbl) |->
            IF tbl[k].email = e
              THEN [tbl[k] EXCEPT !.username = username, !.password = h]
              ELSE tbl[k]]
  ELSE Append(tbl, [id |-> Len(tbl) + 1, username |-> username,
                    email |-> e, password |-> h])

\* INSERT INTO users (username, email, password) VALUES (?, ?, ?)
\* failed is a store failure other than the constraint (I/O, busy, full).
DbInsert(tbl, username, e, h, failed) ==
  IF failed \/ UniqueViolation(tbl, e)
    THEN tbl
    ELSE Append(tbl, [id |-> NextId(tbl), username |-> username,
                      email |-> e, password |-> h])

\* --------------------------------------------------------------- responses

Json(status, success, message) ==
  [status |-> status, success |-> success, message |-> message]

FieldsRequired == Json(400, FALSE, "All fields required")
InvalidEmail == Json(400, FALSE, "Invalid email format")
WeakPassword ==
  Json(400, FALSE,
       "Password must contain 1 uppercase, 1 number, 1 special character & min 8 chars")
ServerError == Json(500, FALSE, "Server error")
EmailRegistered == Json(409, FALSE, "Email already registered")
SignupOk == Json(200, TRUE, "Signup successful")
LoginRequired == Json(400, FALSE, "Email and password required")
InvalidLogin == Json(401, FALSE, "Invalid Email or Password")
InternalError == Json(500, FALSE, "Internal server error")

\* The success payload as it would be if it carried the whole row.
LoginOkWholeRow(user) ==
  [status |-> 200, success |-> TRUE, message |-> "Login successful",
   user |-> user]

LoginOk(user) ==
  [status |-> 200, success |-> TRUE, message |-> "Login successful",
   user |-> [id |-> user.id, username |-> user.username, email |-> user.email]]

NoResp == [status |-> 0]

\* res.status(..).json(..): the handler has answered and ends.
Answer(q, resp) == [q EXCEPT !.pc = "done", !.resp = resp, !.nresp = @ + 1]

\* A rejection nobody catches: the handler ends without answering.
Escape(q, what) == [q EXCEPT !.pc = "lost", !.fault = what]

\* ------------------------------------------------------------------ inputs

Ana == Str(<<"a", "n", "a">>)
Bob == Str(<<"b", "o", "b">>)
Empty == Str(<<>>)

EmMixed == Str(<<"A", "@", "b", ".", "c", " ">>)
EmNorm == Str(<<"a", "@", "b", ".", "c">>)
EmOther == Str(<<"c", "@", "b", ".", "c">>)
EmBad == Str(<<"a", "b", ".", "c">>)
EmArr == Arr(<<"a", "@", "b", ".", "c">>)

PwGood == Str(<<"A", "a", "a", "a", "a", "a", "1", "!">>)
PwGood2 == Str(<<"B", "b", "b", "b", "b", "b", "2", "?">>)
PwWeak == Str(<<"a", "a", "a", "a", "a", "1">>)
PwOdd == Str(<<"A", "a", "a", "a", "a", "a", "1", "!", "#">>)
PwArr == Arr(<<"A", "a", "a", "a", "a", "a", "1", "!">>)

SignupBody(u, e, p) == [username |-> u, email |-> e, password |-> p]
LoginBody(e, p) == [email |-> e, password |-> p]

SignupBodies ==
  {SignupBody(Ana, EmMixed, PwGood), SignupBody(Ana, EmOther, PwGood),
   SignupBody(Bob, EmNorm, PwGood2),
   SignupBody(Empty, EmNorm, PwGood), SignupBody(Ana, EmNorm, Empty),
   SignupBody(Ana, EmBad, PwGood), SignupBody(Ana, EmArr, PwGood),
   SignupBody(Ana, EmNorm, PwWeak), SignupBody(Ana, EmNorm, PwOdd),
   SignupBody(Ana, EmNorm, PwArr)}

LoginBodies ==
  {LoginBody(e, p) : e \in {EmMixed, EmNorm, EmOther}, p \in {PwGood, PwGood2, PwArr}}
    \cup {LoginBody(EmArr, PwGood), LoginBody(EmNorm, Empty)}

\* Passwords for the strength check: MaxPad lowercase letters at most, then
\* at most MaxTail characters of any class ("#" and " " are outside the
\* special-character set).
TailChars == {"A", "a", "1", "!", "#", " "}

RECURSIVE Pad(_)
Pad(n) == IF n = 0 THEN <<>> ELSE <<"b">> \o Pad(n - 1)

RECURSIVE Tails(_)
Tails(n) ==
  IF n = 0 THEN {<<>>}
  ELSE Tails(n - 1) \cup
       {Append(s, c) : s \in {x \in Tails(n - 1) : Len(x) = n - 1}, c \in TailChars}

PolicyPasswords == {Str(Pad(n) \o s) : n \in 0..MaxPad, s \in Tails(MaxTail)}

PolicyBodies == {SignupBody(Ana, EmNorm, p) : p \in PolicyPasswords}

\* ------------------------------------------------------------------- state

IdleReq ==
  [kind |-> "none", pc |-> "idle", body |-> LoginBody(Empty, Empty),
   email |-> <<>>, found |-> <<>>, hashedPassword |-> <<>>,
   resp |-> NoResp, nresp |-> 0,
   had |-> FALSE, after |-> {}, fault |-> "none", looked |-> FALSE,
   wrote |-> FALSE]

\* The table persists across restarts (CREATE TABLE IF NOT EXISTS): it is
\* empty, or holds a row an earlier signup of (ana, a@b.c, PwGood) left.
Row0 ==
  [id |-> 1, username |-> Ana.chars, email |-> EmNorm.chars,
   password |-> BcryptHash(PwGood, 1)]

Init ==
  /\ users \in {<<>>, <<Row0>>}
  /\ reqs = [r \in Reqs |-> IdleReq]

\* Requests already answered with success:true.
Succeeded == {r \in Reqs : reqs[r].nresp > 0 /\ reqs[r].resp.success}

\* A row with this email is in the table.
Registered(tbl, e) == \E k \in 1..Len(tbl) : tbl[k].email = e

Arrive(kind, body) ==
  [IdleReq EXCEPT !.kind = kind, !.body = body, !.after = Succeeded,
     !.had = body.email.type = "string"
               /\ Registered(users, NormalizeEmail(body.email.chars))]

\* ------------------------------------------------------------------ signup

\* app.post("/signup"): the synchronous part, up to the db.get call.
SignupSync(q) ==
  LET b == q.body IN
  IF ~Truthy(b.username) \/ ~Truthy(b.email) \/ ~Truthy(b.password)
    THEN Answer(q, FieldsRequired)
  ELSE IF b.email.type # "string"
    \* email.toLowerCase is not a function: thrown inside try, caught
    THEN Answer([q EXCEPT !.fault = "type"], ServerError)
  ELSE LET e == NormalizeEmail(b.email.chars) IN
    IF ~emailRegex(e) THEN Answer(q, InvalidEmail)
    ELSE IF ~passwordRegex(b.password.chars) THEN Answer(q, WeakPassword)
    ELSE [q EXCEPT !.pc = "lookup", !.email = e]

SignupReceiveFrom(r, bodies) ==
  /\ reqs[r].pc = "idle"
  /\ \E b \in bodies : reqs' = [reqs EXCEPT ![r] = SignupSync(Arrive("signup", b))]
  /\ UNCHANGED users

SignupReceive(r) == SignupReceiveFrom(r, SignupBodies)

\* The db.get callback of signup, up to the await on bcrypt.hash.
SignupLookup(r) ==
  /\ reqs[r].kind = "signup"
  /\ reqs[r].pc = "lookup"
  /\ \E err \in BOOLEAN :
       LET q == reqs[r]
           row == SelectByEmail(users, q.email)
       IN reqs' = [reqs EXCEPT ![r] =
            IF err THEN Answer([q EXCEPT !.fault = "lookup"], ServerError)
            ELSE IF Len(row) > 0
              THEN Answer([q EXCEPT !.looked = TRUE], EmailRegistered)
            ELSE [q EXCEPT !.pc = "hash", !.looked = TRUE]]
  /\ UNCHANGED users

\* await bcrypt.hash(password, 10) settles; on success db.run is called.
\* The await sits in the db.get callback, outside the handler's try.
SignupHash(r) ==
  /\ reqs[r].kind = "signup"
  /\ reqs[r].pc = "hash"
  /\ \E salt \in Salts :
       LET q == reqs[r] IN
       reqs' = [reqs EXCEPT ![r] =
            IF HashRejects(q.body.password) THEN Escape(q, "hash")
            ELSE [q EXCEPT !.pc = "insert",
                           !.hashedPassword = BcryptHash(q.body.password, salt)]]
  /\ UNCHANGED users

\* The callback of db.run: it takes no error argument.
InsertCallback(q, err) == Answer(q, SignupOk)

\* db.run(INSERT ...) executes and its callback runs.
SignupInsert(r) ==
  /\ reqs[r].kind = "signup"
  /\ reqs[r].pc = "insert"
  /\ \E failed \in BOOLEAN :
       LET q == reqs[r]
           err == IF failed THEN "insert"
                  ELSE IF UniqueViolation(users, q.email) THEN "unique"
                  ELSE "none"
           tbl == DbInsert(users, q.body.username.chars, q.email,
                           q.hashedPassword, failed)
       IN /\ users' = tbl
          /\ reqs' = [reqs EXCEPT ![r] =
               InsertCallback([q EXCEPT !.fault = err, !.wrote = (tbl # users)], err)]

\* ------------------------------------------------------------------- login

\* What becomes of a rejected promise of an async route handler: express 4
\* leaves it unhandled (no answer), express 5 passes it to the error
\* middleware.
RejectedHandler(q, forwarded) ==
  IF forwarded THEN Answer([q EXCEPT !.fault = "type"], InternalError)
  ELSE Escape(q, "type")

\* app.post("/login"): the synchronous part, up to the db.get call.
LoginSync(q, forwarded) ==
  LET b == q.body IN
  IF ~Truthy(b.email) \/ ~Truthy(b.password) THEN Answer(q, LoginRequired)
  ELSE IF b.email.type # "string"
    \* email.toLowerCase is not a function: thrown outside any try
    THEN RejectedHandler(q, forwarded)
  ELSE [q EXCEPT !.pc = "lookup", !.email = NormalizeEmail(b.email.chars)]

LoginReceive(r) ==
  /\ reqs[r].pc = "idle"
  /\ \E b \in LoginBodies : \E forwarded \in BOOLEAN :
       reqs' = [reqs EXCEPT ![r] = LoginSync(Arrive("login", b), forwarded)]
  /\ UNCHANGED users

\* The db.get callback of login, up to the await on bcrypt.compare.
LoginLookup(r) ==
  /\ reqs[r].kind = "login"
  /\ reqs[r].pc = "lookup"
  /\ \E err \in BOOLEAN :
       LET q == reqs[r]
           row == SelectByEmail(users, q.email)
       IN reqs' = [reqs EXCEPT ![r] =
            IF err THEN Answer([q EXCEPT !.fault = "lookup"], ServerError)
            ELSE IF Len(row) = 0
              THEN Answer([q EXCEPT !.looked = TRUE], InvalidLogin)
            ELSE [q EXCEPT !.pc = "compare", !.found = row, !.looked = TRUE]]
  /\ UNCHANGED users

\* await bcrypt.compare(password, user.password) settles, inside try.
LoginCompare(r) ==
  /\ reqs[r].kind = "login"
  /\ reqs[r].pc = "compare"
  /\ LET q == reqs[r]
         user == q.found[1]
     IN reqs' = [reqs EXCEPT ![r] =
          IF CompareRejects(q.body.password)
            THEN Answer([q EXCEPT !.fault = "compare"], ServerError)
          ELSE IF ~BcryptCompare(q.body.password, user.password)
            THEN Answer(q, InvalidLogin)
          ELSE Answer(q, LoginOk(user))]
  /\ UNCHANGED users

\* ----------------------------------------------------------- specification

Next ==
  \E r \in Reqs :
    \/ SignupReceive(r)
    \/ SignupLookup(r)
    \/ SignupHash(r)
    \/ SignupInsert(r)
    \/ LoginReceive(r)
    \/ LoginLookup(r)
    \/ LoginCompare(r)

Spec == Init /\ [][Next]_vars

\* The strength check alone: one signup, its password drawn from
\* PolicyPasswords.
PolicyReceive == SignupReceiveFrom(1, PolicyBodies)

NextPolicy ==
  \/ PolicyReceive
  \/ SignupLookup(1)
  \/ SignupHash(1)
  \/ SignupInsert(1)

SpecPolicy == Init /\ [][NextPolicy]_vars

\* ------------------------------------------------------------------ claims

Signups == {r \in Reqs : reqs[r].kind = "signup"}
Logins == {r \in Reqs : reqs[r].kind = "login"}
Answered(r) == reqs[r].nresp > 0
Ended(r) == reqs[r].pc \in {"done", "lost"}

\* The body passes every check of the synchronous part of /signup.
PassesValidation(b) == SignupSync([IdleReq EXCEPT !.body = b]).pc = "lookup"

\* The store itself did not break down under the request: no I/O, busy or
\* full-disk failure of its lookup or insert.
StoreUp(r) == reqs[r].fault \notin {"lookup", "insert"}

\* C1: of the signup requests carrying the same normalized email and valid
\* input, at most one is answered with success:true, whatever the
\* interleaving of their lookup, hashing and insert steps (the store being
\* up throughout).
AtMostOneSignupSucceeds ==
  \A r1 \in Signups : \A r2 \in Signups :
    (/\ r1 # r2
     /\ PassesValidation(reqs[r1].body)
     /\ PassesValidation(reqs[r2].body)
     /\ reqs[r1].email = reqs[r2].email
     /\ StoreUp(r1) /\ StoreUp(r2)
     /\ Answered(r1) /\ reqs[r1].resp.success
     /\ Answered(r2))
    => ~reqs[r2].resp.success

\* C2: the users table never holds two rows with the same normalized email.
UniqueEmails ==
  \A i \in 1..Len(users) : \A j \in 1..Len(users) :
    i # j => NormalizeEmail(users[i].email) # NormalizeEmail(users[j].email)

\* C2 witness: an insert for an email that is already in the table was
\* attempted, and the table holds a row.
UniqueEmailsWitness ==
  /\ Len(users) > 0
  /\ \E r \in Signups : reqs[r].pc = "done" /\ reqs[r].fault = "unique"

\* A login that follows the successful signup s, with the same password and
\* an email that normalizes to the signup's, and whose own lookup did not
\* fail.
LoginAfter(l, s) ==
  /\ s \in Signups /\ l \in Logins
  /\ Answered(s) /\ reqs[s].resp.success
  /\ s \in reqs[l].after
  /\ reqs[l].body.email.type = "string"
  /\ NormalizeEmail(reqs[l].body.email.chars) = reqs[s].email
  /\ reqs[l].body.password = reqs[s].body.password
  /\ reqs[l].pc = "done"
  /\ reqs[l].fault # "lookup"

\* C3: a signup answered with success, followed by a login with the same
\* password and an email normalizing to the same value, makes the login
\* succeed with the submitted username and the normalized email, and all such
\* logins return the same id.
SignupThenLoginSucceeds ==
  \A s \in Reqs : \A l \in Reqs :
    LoginAfter(l, s) =>
      /\ reqs[l].resp.success
      /\ reqs[l].resp.user.username = reqs[s].body.username.chars
      /\ reqs[l].resp.user.email = reqs[s].email
      /\ \A m \in Reqs :
           LoginAfter(m, s) => reqs[m].resp.user.id = reqs[l].resp.user.id

\* C4 as stated: a signup whose normalized email is already in the store
\* (and whose input is otherwise valid) is answered 409 and inserts no row.
RegisteredEmailIs409 ==
  \A r \in Signups :
    (reqs[r].had /\ PassesValidation(reqs[r].body) /\ reqs[r].pc = "done")
    => (reqs[r].resp = EmailRegistered /\ ~reqs[r].wrote)

\* C4 amended: a signup that passes validation and whose normalized email is
\* already in the store never inserts a row and is never answered with
\* success: it gets the 409 conflict when its existence lookup succeeds and
\* the generic 500 when the lookup itself fails.
RegisteredEmailRejected ==
  \A r \in Signups :
    (reqs[r].had /\ PassesValidation(reqs[r].body))
    => /\ ~reqs[r].wrote
       /\ reqs[r].pc \in {"lookup", "done"}
       /\ reqs[r].pc = "done" =>
            /\ reqs[r].nresp = 1
            /\ reqs[r].fault \in {"none", "lookup"}
            /\ reqs[r].fault = "none" => reqs[r].resp = EmailRegistered
            /\ reqs[r].fault = "lookup" => reqs[r].resp = ServerError

\* C4 witness: Row0 holds a@b.c and a signup with "A@b.c " got the 409.
RegisteredEmailWitness ==
  \E r \in Signups :
    /\ reqs[r].had
    /\ reqs[r].body.email = EmMixed
    /\ reqs[r].resp = EmailRegistered

\* The password of a login does not verify against the row found.
WrongPassword(q) ==
  /\ Len(q.found) > 0
  /\ ~(q.body.password.type = "string"
         /\ Digest(q.found[1].password.salt, q.body.password.chars)
              = q.found[1].password.digest)

\* C5: a login with a registered email and a wrong password and a login with
\* an email that is not registered get the same status and payload.
LoginFailuresIndistinguishable ==
  \A l1 \in Logins : \A l2 \in Logins :
    (/\ reqs[l1].pc = "done" /\ reqs[l1].looked /\ WrongPassword(reqs[l1])
     /\ reqs[l2].pc = "done" /\ reqs[l2].looked /\ Len(reqs[l2].found) = 0)
    => reqs[l1].resp = reqs[l2].resp

\* C6: a signup whose lookup or insert failed in the store (a uniqueness
\* violation included) is answered with the generic 500, never success.
StoreFailureIs500 ==
  \A r \in Signups :
    (reqs[r].pc = "done" /\ reqs[r].fault \in {"lookup", "insert", "unique"})
    => reqs[r].resp = ServerError

\* C7: every handler that has ended has sent exactly one JSON response; no
\* error leaves a handler uncaught.
EveryHandlerAnswers ==
  \A r \in Reqs : Ended(r) => (reqs[r].pc = "done" /\ reqs[r].nresp = 1)

\* The four conditions of the password policy.
MeetsPolicy(s) ==
  /\ Len(s) >= 8
  /\ \E k \in 1..Len(s) : s[k] \in {"A", "B"}
  /\ \E k \in 1..Len(s) : s[k] \in {"1", "2"}
  /\ \E k \in 1..Len(s) : s[k] \in {"@", "$", "!", "%", "*", "?", "&"}

\* C8: with a non-empty username and a well-formed email, signup rejects the
\* password as weak exactly when it fails one of the four conditions.
PolicyDecidesStrength ==
  \A r \in Signups :
    (/\ Truthy(reqs[r].body.username)
     /\ reqs[r].body.email.type = "string"
     /\ emailRegex(NormalizeEmail(reqs[r].body.email.chars))
     /\ reqs[r].body.password.type = "string"
     /\ Len(reqs[r].body.password.chars) > 0)
    => ((reqs[r].resp = WeakPassword) <=> ~MeetsPolicy(reqs[r].body.password.chars))

\* C9: a step leaves every existing row as it is; the only change is one row
\* appended by the insert step of a signup that is then answered with
\* success, so no login and no signup ending in 400, 409 or 500 changes the
\* table.
RowsStep ==
  /\ Len(users') \in {Len(users), Len(users) + 1}
  /\ SubSeq(users', 1, Len(users)) = users
  /\ users' # users =>
       \E r \in Reqs :
         /\ reqs[r].kind = "signup"
         /\ reqs[r].pc = "insert"
         /\ reqs'[r].resp = SignupOk
         /\ \A o \in Reqs \ {r} : reqs'[o] = reqs[o]
  /\ \A r \in Reqs :
       (reqs'[r].kind = "login" \/ reqs'[r].resp.status \in {400, 409, 500})
         => ~reqs'[r].wrote

RowsImmutable == [][RowsStep]_vars

\* C9 witness: the row of an earlier run is still the first row after a
\* signup appended a second one and another request ended without writing.
RowsImmutableWitness ==
  /\ Len(users) = 2
  /\ users[1] = Row0
  /\ \E r \in Signups : \E o \in Reqs \ {r} :
       /\ reqs[r].pc = "done" /\ reqs[r].wrote
       /\ reqs[o].pc = "done" /\ ~reqs[o].wrote

\* C10: a login answered with success found a row with the normalized email
\* whose hash the password verifies against, and its payload is exactly that
\* row's id, username and email; no response carries a password field or any
\* field beyond status, success, message and user{id, username, email}.
LoginSuccessSound ==
  \A r \in Reqs :
    /\ DOMAIN reqs[r].resp \subseteq {"status", "success", "message", "user"}
    /\ (reqs[r].kind = "signup" => "user" \notin DOMAIN reqs[r].resp)
    /\ (r \in Logins /\ Answered(r) /\ reqs[r].resp.success) =>
         /\ reqs[r].body.email.type = "string"
         /\ reqs[r].body.password.type = "string"
         /\ DOMAIN reqs[r].resp.user = {"id", "username", "email"}
         /\ \E k \in 1..Len(users) :
              /\ users[k].email = NormalizeEmail(reqs[r].body.email.chars)
              /\ users[k].password.digest
                   = Digest(users[k].password.salt, reqs[r].body.password.chars)
              /\ reqs[r].resp.user.id = users[k].id
              /\ reqs[r].resp.user.username = users[k].username
              /\ reqs[r].resp.user.email = users[k].email

\* C10 witness: a login with a differently written email was answered with
\* success.
LoginSuccessWitness ==
  \E r \in Logins :
    Answered(r) /\ reqs[r].resp.success /\ reqs[r].body.email = EmMixed

====
